---- MODULE Spec2Model ----
(***************************************************************************)
(* A model of windows_font_changer.font_manager.FontManager: the two       *)
(* registry keys it edits, the files it writes, and its operations, with   *)
(* the registry and file-system calls able to fail the way winreg and      *)
(* pathlib raise.                                                          *)
(***************************************************************************)
EXTENDS Integers, Sequences, FiniteSets, TLC

\* Python's None, and a present value v (a registry value that exists, a
\* returned string, a file that exists).
None == <<>>
Some(v) == <<v>>

\* ---------------------------------------------------------------- constants

FONTS_KEY_PATH == "SOFTWARE\\Microsoft\\Windows NT\\CurrentVersion\\Fonts"
FONT_SUBSTITUTES_KEY_PATH == "SOFTWARE\\Microsoft\\Windows NT\\CurrentVersion\\FontSubstitutes"

\* The dict SEGOE_UI_FONTS in insertion order. A display name is kept as its
\* words (the name is the words joined by single spaces), so that the
\* substring test of change_font can be computed.
SEGOE_UI_FONTS ==
  << [words |-> <<"Segoe", "UI", "(TrueType)">>, file |-> "segoeui.ttf"],
     [words |-> <<"Segoe", "UI", "Bold", "(TrueType)">>, file |-> "segoeuib.ttf"],
     [words |-> <<"Segoe", "UI", "Bold", "Italic", "(TrueType)">>, file |-> "segoeuiz.ttf"],
     [words |-> <<"Segoe", "UI", "Italic", "(TrueType)">>, file |-> "segoeuii.ttf"],
     [words |-> <<"Segoe", "UI", "Light", "(TrueType)">>, file |-> "segoeuil.ttf"],
     [words |-> <<"Segoe", "UI", "Semibold", "(TrueType)">>, file |-> "seguisb.ttf"],
     [words |-> <<"Segoe", "UI", "Symbol", "(TrueType)">>, file |-> "seguisym.ttf"],
     [words |-> <<"Segoe", "UI", "Black", "(TrueType)">>, file |-> "seguibl.ttf"],
     [words |-> <<"Segoe", "UI", "Black", "Italic", "(TrueType)">>, file |-> "seguibli.ttf"],
     [words |-> <<"Segoe", "UI", "Emoji", "(TrueType)">>, file |-> "seguiemj.ttf"],
     [words |-> <<"Segoe", "UI", "Historic", "(TrueType)">>, file |-> "seguihis.ttf"],
     [words |-> <<"Segoe", "UI", "Light", "Italic", "(TrueType)">>, file |-> "seguili.ttf"],
     [words |-> <<"Segoe", "UI", "Semibold", "Italic", "(TrueType)">>, file |-> "seguisbi.ttf"],
     [words |-> <<"Segoe", "UI", "Semilight", "(TrueType)">>, file |-> "segoeuisl.ttf"],
     [words |-> <<"Segoe", "UI", "Semilight", "Italic", "(TrueType)">>, file |-> "seguisli.ttf"],
     [words |-> <<"Segoe", "MDL2", "Assets", "(TrueType)">>, file |-> "segmdl2.ttf"],
     [words |-> <<"Segoe", "Print", "(TrueType)">>, file |-> "segoepr.ttf"],
     [words |-> <<"Segoe", "Print", "Bold", "(TrueType)">>, file |-> "segoeprb.ttf"],
     [words |-> <<"Segoe", "Script", "(TrueType)">>, file |-> "segoesc.ttf"],
     [words |-> <<"Segoe", "Script", "Bold", "(TrueType)">>, file |-> "segoescb.ttf"] >>

NumEntries == Len(SEGOE_UI_FONTS)
EntryIdx == 1..NumEntries

RECURSIVE JoinWords(_)
JoinWords(ws) ==
  IF Len(ws) = 0 THEN ""
  ELSE IF Len(ws) = 1 THEN ws[1]
  ELSE ws[1] \o " " \o JoinWords(Tail(ws))

\* needle in hay, for strings given as their words
ContainsWords(hay, needle) ==
  \E i \in 0..(Len(hay) - Len(needle)) :
    \A j \in 1..Len(needle) : hay[i + j] = needle[j]

\* The sequence <<f[1], ..., f[n]>>
RECURSIVE SeqOf(_, _)
SeqOf(f, n) == IF n = 0 THEN <<>> ELSE Append(SeqOf(f, n - 1), f[n])

\* The display name and file name of the i-th table entry.
EntryName == SeqOf([i \in EntryIdx |-> JoinWords(SEGOE_UI_FONTS[i].words)], NumEntries)
EntryFile == SeqOf([i \in EntryIdx |-> SEGOE_UI_FONTS[i].file], NumEntries)

\* "Segoe UI" in font_entry
NameHasSegoeUI ==
  SeqOf([i \in EntryIdx |-> ContainsWords(SEGOE_UI_FONTS[i].words, <<"Segoe", "UI">>)],
        NumEntries)

\* The value name both operations use under the FontSubstitutes key.
SubstName == "Segoe UI"

\* self._backup_file
BackupPath == "~/.windows_font_changer_backup.reg"

\* A second path, as a caller of create_reg_file may choose it. The caller is
\* free to choose the backup path as well.
ExportPath == "C:/Users/me/Desktop/change_font.reg"
Paths == {BackupPath, ExportPath}

\* The font names the operations are called with ("" is a str as well).
FontNames == {"Arial", ""}

\* A Fonts-key value that is no entry of the table.
OtherFontsName == "Arial (TrueType)"
FontsValueNames == {EntryName[i] : i \in EntryIdx} \cup {OtherFontsName}

\* ------------------------------------------------------------- environment

\* What a winreg or pathlib call does: it returns, or raises PermissionError,
\* or raises another exception whose str() is desc.
OK == [type |-> "ok", desc |-> ""]
PermissionErr == [type |-> "PermissionError", desc |-> "[WinError 5] Access is denied"]
OtherErr == [type |-> "Exception", desc |-> "Registry error"]
Failures == {PermissionErr, OtherErr}
Outcomes == {OK} \cup Failures

\* The number of calls that raise in one behaviour is bounded.
MaxFaults == 1

\* The loop positions at which a SetValueEx may raise: the first entry, one in
\* the middle and the last entry.
FailPoints == {1, 8, NumEntries}

NFaults(os) == Cardinality({i \in DOMAIN os : os[i] # OK})

\* ------------------------------------------------------------------- state

VARIABLES
  fonts,    \* the string values of the Fonts key, by value name
  subst,    \* the "Segoe UI" value of the FontSubstitutes key: None or Some(str)
  files,    \* the file system: path -> None or Some(written file)
  pc,       \* where the manager is: "idle", or the step of the running call
  cur,      \* the running call: its operation, argument and what it has done
  ret,      \* the last finished call and what it returned
  before,   \* the call that finished before that one, as ret had it
  faults,   \* the calls that raised so far
  ui        \* the window of the presentation layer and its worker threads

vars == <<fonts, subst, files, pc, cur, ret, before, faults, ui>>

DefaultFonts ==
  [n \in FontsValueNames |->
     IF n = OtherFontsName THEN "arial.ttf"
     ELSE EntryFile[CHOOSE i \in EntryIdx : EntryName[i] = n]]

\* The state a finished change_font leaves.
ClearedFonts ==
  [n \in FontsValueNames |->
     IF n = OtherFontsName THEN "arial.ttf"
     ELSE LET i == CHOOSE j \in EntryIdx : EntryName[j] = n
          IN  IF NameHasSegoeUI[i] THEN "" ELSE EntryFile[i]]

\* A registry another tool has edited.
ForeignFonts ==
  [DefaultFonts EXCEPT ![EntryName[2]] = "custom.ttf", ![EntryName[17]] = "custom.ttf"]

\* cur: the operation and its argument, the registry as the call found it, and
\* whether the call has written the backup file.
NoCall == [op |-> "none", arg |-> "", preFonts |-> <<>>, preSubst |-> None, backedUp |-> FALSE]
\* ret: the operation and its argument (create_reg_file: <<font_name,
\* output_path>>), the value returned (val), the
\* exception that ended the call's work and where it was raised (exc, at: the
\* operation catches it, except that backup_current_settings and
\* create_reg_file let the one of write_text through to their caller), and the
\* places where a direct call of backup_current_settings passed over one.
NoRet == [op |-> "none", arg |-> "", val |-> None, at |-> "none", exc |-> OK,
          swallowed |-> {}]

\* A dialog the window has shown, and what the user answered.
NoDialog == [kind |-> "none", text |-> "", reply |-> "none"]

\* ui before FontChangerUI is constructed. workers are the FontChangeWorker
\* threads started whose completion has not been handled, signals the emitted
\* finished(success, message) not yet delivered to the window, read the exit
\* get_current_font took when the label was last set.
NoWindow ==
  [window |-> FALSE, apply_enabled |-> FALSE, restore_enabled |-> FALSE,
   label |-> "", read |-> "none", dialog |-> NoDialog,
   workers |-> <<>>, signals |-> <<>>]

Init ==
  /\ fonts \in {DefaultFonts, ClearedFonts, ForeignFonts}
  /\ subst \in {None} \cup {Some(f) : f \in FontNames}
  /\ files = [p \in Paths |-> None]
  /\ pc = "idle"
  /\ cur = NoCall
  /\ ret = NoRet
  /\ before = NoRet
  /\ faults = 0
  /\ ui = NoWindow

\* ------------------------------------------------------------ get_current_font

\* get_current_font that lets the caller tell a failed read from an absent
\* value.
get_current_font_Distinct(s, oOpen, oQuery) ==
  IF oOpen # OK \/ oQuery # OK THEN Some("<error>")
  ELSE s

\* get_current_font that names the default font when it finds no value.
get_current_font_Default(s, oOpen, oQuery) ==
  IF oOpen # OK \/ oQuery # OK \/ s = None THEN Some("Segoe UI")
  ELSE s

\* get_current_font with "if value: return value": an empty string is lost.
get_current_font_Falsy(s, oOpen, oQuery) ==
  IF oOpen # OK \/ oQuery # OK \/ s = None THEN None
  ELSE IF s[1] = "" THEN None
  ELSE s

\* The value get_current_font returns when the registry holds s, OpenKey ends
\* oOpen and QueryValueEx ends oQuery (on an absent value QueryValueEx raises
\* FileNotFoundError by itself).
get_current_font(s, oOpen, oQuery) ==
  IF oOpen # OK THEN None                 \* except Exception: return None
  ELSE IF oQuery # OK THEN None           \* not FileNotFoundError: the outer except
  ELSE IF s = None THEN None              \* except FileNotFoundError: return None
  ELSE s                                  \* return value

\* Which of its four exits get_current_font took.
GetExit(s, oOpen, oQuery) ==
  IF oOpen # OK THEN "open_failed"
  ELSE IF oQuery # OK THEN "query_failed"
  ELSE IF s = None THEN "not_found"
  ELSE "value"

\* ----------------------------------------------------- backup_current_settings

Header == "Windows Registry Editor Version 5.00"
SectionLine(keyPath) == "[HKEY_LOCAL_MACHINE\\" \o keyPath \o "]"
ValueLine(name, value) == "\"" \o name \o "\"=\"" \o value \o "\""
DeleteLine(name) == "\"" \o name \o "\"=-"

\* Python's truth value of an Optional[str]
Truthy(x) == x # None /\ x[1] # ""

\* for name, file in self.SEGOE_UI_FONTS.items(): append f'"{name}"="{file}"'
TableLines == SeqOf([i \in EntryIdx |-> ValueLine(EntryName[i], EntryFile[i])], NumEntries)

\* The table lines appended outside the try block.
BackupFontsLines_Always(oFonts) == TableLines

\* The lines appended inside the try block that opens the Fonts key.
BackupFontsLines(oFonts) == IF oFonts = OK THEN TableLines ELSE <<>>

\* The line of the FontSubstitutes section.
BackupSubstLine(current_font) ==
  IF Truthy(current_font) THEN ValueLine(SubstName, current_font[1])
  ELSE DeleteLine(SubstName)

\* backup_content, the lines that are joined by "\n"
backup_content(oFonts, current_font) ==
  <<Header, "", SectionLine(FONTS_KEY_PATH)>>
  \o BackupFontsLines(oFonts)
  \o <<"">>
  \o <<SectionLine(FONT_SUBSTITUTES_KEY_PATH)>>
  \o <<BackupSubstLine(current_font)>>

\* A file as write_text leaves it.
File(lines) == [encoding |-> "utf-16-le", lines |-> lines]

\* A write that goes to self._backup_file whatever path is given.
write_text_ToBackupFile(fs, path, lines, oWrite, truncated) ==
  IF oWrite = OK THEN [fs EXCEPT ![BackupPath] = Some(File(lines))]
  ELSE IF truncated THEN [fs EXCEPT ![BackupPath] = Some(File(<<>>))]
  ELSE fs

\* Path.write_text: the file holds the text when the call returns. When it
\* raises, the file is as it was (the open failed) or is left empty (opened
\* for writing, which truncates, and the write failed).
write_text(fs, path, lines, oWrite, truncated) ==
  IF oWrite = OK THEN [fs EXCEPT ![path] = Some(File(lines))]
  ELSE IF truncated THEN [fs EXCEPT ![path] = Some(File(<<>>))]
  ELSE fs

\* -------------------------------------------------------------- the registry

\* The loop of change_font without its test of the name.
ClearBefore_All(f, k) ==
  [n \in DOMAIN f |->
     IF \E i \in 1..(k - 1) : EntryName[i] = n THEN "" ELSE f[n]]

\* The loop of change_font starting at the second entry.
ClearBefore_SkipsFirst(f, k) ==
  [n \in DOMAIN f |->
     IF \E i \in 2..(k - 1) : EntryName[i] = n /\ NameHasSegoeUI[i] THEN "" ELSE f[n]]

\* The Fonts key after the loop of change_font has written the entries before
\* position k (k = NumEntries + 1: the whole loop).
ClearBefore(f, k) ==
  [n \in DOMAIN f |->
     IF \E i \in 1..(k - 1) : EntryName[i] = n /\ NameHasSegoeUI[i] THEN "" ELSE f[n]]

\* restore_default_font with the name test of change_font in its loop.
RestoreBefore_OnlySegoeUI(f, k) ==
  [n \in DOMAIN f |->
     IF \E i \in 1..(k - 1) : EntryName[i] = n /\ NameHasSegoeUI[i]
     THEN EntryFile[CHOOSE i \in 1..(k - 1) : EntryName[i] = n]
     ELSE f[n]]

\* The Fonts key after the loop of restore_default_font has written the
\* entries before position k.
RestoreBefore(f, k) ==
  [n \in DOMAIN f |->
     IF \E i \in 1..(k - 1) : EntryName[i] = n
     THEN EntryFile[CHOOSE i \in 1..(k - 1) : EntryName[i] = n]
     ELSE f[n]]

\* -------------------------------------------------------------------- results

PermissionMsg == "Permission denied. Please run as administrator."
ChangeOkMsg(font_name) ==
  "Font changed to " \o font_name \o ". Please restart Windows to apply changes."
RestoreOkMsg == "Default font restored. Please restart Windows to apply changes."

\* change_font without its except PermissionError clause.
change_font_except_Generic(e) == <<FALSE, "Error changing font: " \o e.desc>>

\* The except clauses of change_font.
change_font_except(e) ==
  IF e.type = "PermissionError" THEN <<FALSE, PermissionMsg>>
  ELSE <<FALSE, "Error changing font: " \o e.desc>>

\* The except clauses of restore_default_font.
restore_default_font_except(e) ==
  IF e.type = "PermissionError" THEN <<FALSE, PermissionMsg>>
  ELSE <<FALSE, "Error restoring default font: " \o e.desc>>

\* A call returns (or raises exc): the manager is idle again.
Return(val, at, exc) ==
  /\ pc' = "idle"
  /\ cur' = NoCall
  /\ ret' = [op |-> cur.op, arg |-> cur.arg, val |-> val, at |-> at, exc |-> exc,
             swallowed |-> {}]

Call(op, arg, step) ==
  /\ pc = "idle"
  /\ pc' = step
  /\ cur' = [op |-> op, arg |-> arg, preFonts |-> fonts, preSubst |-> subst,
             backedUp |-> FALSE]
  /\ UNCHANGED <<fonts, subst, files, ret, faults>>

\* A call that runs in one step returns val, or raises exc.
Atomic(op, arg, val, at, exc, swallowed) ==
  /\ pc = "idle"
  /\ UNCHANGED <<pc, cur>>
  /\ ret' = [op |-> op, arg |-> arg, val |-> val, at |-> at, exc |-> exc,
             swallowed |-> swallowed]

\* What a call of the environment can still do in this behaviour.
Possible == IF faults < MaxFaults THEN Outcomes ELSE {OK}

\* os are the outcomes the environment gives the calls of this step.
Raises(os) ==
  /\ faults + NFaults(os) <= MaxFaults
  /\ faults' = faults + NFaults(os)

\* -------------------------------------------------------------------- actions

GetCurrentFont ==
  \E oOpen, oQuery \in Possible :
    /\ oOpen # OK => oQuery = OK          \* QueryValueEx is not reached
    /\ Raises(<<oOpen, oQuery>>)
    /\ Atomic("get_current_font", "", get_current_font(subst, oOpen, oQuery),
              GetExit(subst, oOpen, oQuery),
              IF oOpen # OK THEN oOpen ELSE oQuery, {})
    /\ UNCHANGED <<fonts, subst, files>>

\* The body of backup_current_settings: the Fonts key is opened (oFonts),
\* get_current_font runs (oOpen, oQuery), the file is written (oWrite).
Backup(oFonts, oOpen, oQuery, oWrite, truncated) ==
  /\ oOpen # OK => oQuery = OK
  /\ oWrite = OK => ~truncated
  /\ Raises(<<oFonts, oOpen, oQuery, oWrite>>)
  /\ files' = write_text(files, BackupPath,
                         backup_content(oFonts, get_current_font(subst, oOpen, oQuery)),
                         oWrite, truncated)
  /\ UNCHANGED <<fonts, subst>>

BackupCurrentSettings ==
  \E oFonts, oOpen, oQuery, oWrite \in Possible, truncated \in BOOLEAN :
    /\ Backup(oFonts, oOpen, oQuery, oWrite, truncated)
    /\ Atomic("backup_current_settings", "", None,
              IF oWrite = OK THEN "none" ELSE "write", oWrite,
              {"open_fonts" : x \in {oFonts} \ {OK}}
                \cup {"get_current_font" : x \in {oOpen, oQuery} \ {OK}})

CallChangeFont ==
  \E font_name \in FontNames : Call("change_font", font_name, "cf_backup")

\* change_font with the backup in a try block of its own: a failed backup is
\* passed over.
CfBackup_PassedOver ==
  /\ pc = "cf_backup"
  /\ \E oFonts, oOpen, oQuery, oWrite \in Possible, truncated \in BOOLEAN :
       /\ Backup(oFonts, oOpen, oQuery, oWrite, truncated)
       /\ pc' = "cf_clear"
       /\ cur' = [cur EXCEPT !.backedUp = (oWrite = OK)]
       /\ UNCHANGED ret

\* change_font, "First, backup current settings"
CfBackup ==
  /\ pc = "cf_backup"
  /\ \E oFonts, oOpen, oQuery, oWrite \in Possible, truncated \in BOOLEAN :
       /\ Backup(oFonts, oOpen, oQuery, oWrite, truncated)
       /\ IF oWrite = OK
          THEN /\ pc' = "cf_clear"
               /\ cur' = [cur EXCEPT !.backedUp = TRUE]
               /\ UNCHANGED ret
          ELSE Return(change_font_except(oWrite), "backup", oWrite)

\* change_font, "Clear Segoe UI font mappings": OpenKey ends oOpen; when oSet
\* is a failure, the SetValueEx of entry k raises it.
CfClear ==
  /\ pc = "cf_clear"
  /\ \E oOpen, oSet \in Possible, k \in FailPoints :
       /\ oOpen # OK => oSet = OK
       /\ oSet = OK => k = 1
       /\ oSet # OK => NameHasSegoeUI[k]
       /\ Raises(<<oOpen, oSet>>)
       /\ IF oOpen # OK
          THEN /\ UNCHANGED fonts
               /\ Return(change_font_except(oOpen), "open_fonts", oOpen)
          ELSE IF oSet # OK
          THEN /\ fonts' = ClearBefore(fonts, k)
               /\ Return(change_font_except(oSet), "set_fonts", oSet)
          ELSE /\ fonts' = ClearBefore(fonts, NumEntries + 1)
               /\ pc' = "cf_subst"
               /\ UNCHANGED cur
               /\ UNCHANGED ret
  /\ UNCHANGED <<subst, files>>

\* change_font, "Set font substitution" and the return
CfSubst ==
  /\ pc = "cf_subst"
  /\ \E oOpen, oSet \in Possible :
       /\ oOpen # OK => oSet = OK
       /\ Raises(<<oOpen, oSet>>)
       /\ IF oOpen # OK
          THEN /\ UNCHANGED subst
               /\ Return(change_font_except(oOpen), "open_subst", oOpen)
          ELSE IF oSet # OK
          THEN /\ UNCHANGED subst
               /\ Return(change_font_except(oSet), "set_subst", oSet)
          ELSE /\ subst' = Some(cur.arg)
               /\ Return(<<TRUE, ChangeOkMsg(cur.arg)>>, "none", OK)
  /\ UNCHANGED <<fonts, files>>

CallRestoreDefaultFont == Call("restore_default_font", "", "rs_fonts")

\* restore_default_font, "Restore Segoe UI font mappings"
RsFonts ==
  /\ pc = "rs_fonts"
  /\ \E oOpen, oSet \in Possible, k \in FailPoints :
       /\ oOpen # OK => oSet = OK
       /\ oSet = OK => k = 1
       /\ Raises(<<oOpen, oSet>>)
       /\ IF oOpen # OK
          THEN /\ UNCHANGED fonts
               /\ Return(restore_default_font_except(oOpen), "open_fonts", oOpen)
          ELSE IF oSet # OK
          THEN /\ fonts' = RestoreBefore(fonts, k)
               /\ Return(restore_default_font_except(oSet), "set_fonts", oSet)
          ELSE /\ fonts' = RestoreBefore(fonts, NumEntries + 1)
               /\ pc' = "rs_subst"
               /\ UNCHANGED cur
               /\ UNCHANGED ret
  /\ UNCHANGED <<subst, files>>

\* restore_default_font, "Remove font substitution" and the return. On an
\* absent value DeleteValue raises FileNotFoundError, which is passed over.
RsSubst ==
  /\ pc = "rs_subst"
  /\ \E oOpen, oDelete \in Possible :
       /\ oOpen # OK => oDelete = OK
       /\ Raises(<<oOpen, oDelete>>)
       /\ IF oOpen # OK
          THEN /\ UNCHANGED subst
               /\ Return(restore_default_font_except(oOpen), "open_subst", oOpen)
          ELSE IF oDelete # OK
          THEN /\ UNCHANGED subst
               /\ Return(restore_default_font_except(oDelete), "delete_subst", oDelete)
          ELSE /\ subst' = None
               /\ Return(<<TRUE, RestoreOkMsg>>, "none", OK)
  /\ UNCHANGED <<fonts, files>>

\* ------------------------------------------------------------- create_reg_file

\* the positions of the entries whose name holds "Segoe UI", in dict order
SegoeUIPositions ==
  SelectSeq([i \in EntryIdx |-> i], LAMBDA i : NameHasSegoeUI[i])

\* "Add entries to clear Segoe UI fonts": append f'"{font_entry}"=""'
ClearingLines ==
  SeqOf([j \in DOMAIN SegoeUIPositions |-> ValueLine(EntryName[SegoeUIPositions[j]], "")],
        Len(SegoeUIPositions))

\* reg_content with a line for every entry of the table.
reg_content_AllEntries(font_name) ==
  <<Header, "", SectionLine(FONTS_KEY_PATH)>>
  \o SeqOf([i \in EntryIdx |-> ValueLine(EntryName[i], "")], NumEntries)
  \o <<"", SectionLine(FONT_SUBSTITUTES_KEY_PATH), ValueLine(SubstName, font_name)>>

reg_content(font_name) ==
  <<Header, "", SectionLine(FONTS_KEY_PATH)>>
  \o ClearingLines
  \o <<"", SectionLine(FONT_SUBSTITUTES_KEY_PATH), ValueLine(SubstName, font_name)>>

\* The documents written are registry-edit scripts "for manual font change":
\* the registry tool applies one line by line. A section line selects the
\* key; under it "name"="value" sets the string value name and "name"=-
\* deletes it. FontsLines and SubstLines are the value lines the manager
\* formats for the two sections (an entry of the table with its file name or
\* with ""; "Segoe UI" with a font name), read back as the name and the value
\* they were formatted from; any other line changes nothing.
FontsLines ==
  UNION {{[line |-> ValueLine(EntryName[i], v), name |-> EntryName[i], value |-> v] :
            v \in {"", EntryFile[i]}} : i \in EntryIdx}
SubstLines ==
  {[line |-> ValueLine(SubstName, v), name |-> SubstName, value |-> v] : v \in FontNames}

\* The registry (fonts f, substitution s) after the lines are applied, key
\* being the key selected so far.
RECURSIVE Import(_, _, _, _)
Import(lines, key, f, s) ==
  IF lines = <<>> THEN [fonts |-> f, subst |-> s]
  ELSE LET l == Head(lines)
           rest == Tail(lines)
       IN  IF l = SectionLine(FONTS_KEY_PATH) THEN Import(rest, "Fonts", f, s)
           ELSE IF l = SectionLine(FONT_SUBSTITUTES_KEY_PATH)
           THEN Import(rest, "FontSubstitutes", f, s)
           ELSE IF key = "Fonts" /\ \E r \in FontsLines : r.line = l
           THEN LET r == CHOOSE r \in FontsLines : r.line = l
                IN  Import(rest, key, [f EXCEPT ![r.name] = r.value], s)
           ELSE IF key = "FontSubstitutes" /\ \E r \in SubstLines : r.line = l
           THEN LET r == CHOOSE r \in SubstLines : r.line = l
                IN  Import(rest, key, f, Some(r.value))
           ELSE IF key = "FontSubstitutes" /\ l = DeleteLine(SubstName)
           THEN Import(rest, key, f, None)
           ELSE Import(rest, key, f, s)

\* A written file applied to the registry (f, s).
ApplyRegFile(file, f, s) == Import(file.lines, "none", f, s)

\* create_reg_file that applies the change as well as writing the file.
CreateRegFile_Applies ==
  \E font_name \in FontNames, output_path \in Paths, oWrite \in Possible,
     truncated \in BOOLEAN :
    /\ oWrite = OK => ~truncated
    /\ Raises(<<oWrite>>)
    /\ files' = write_text(files, output_path, reg_content(font_name), oWrite, truncated)
    /\ Atomic("create_reg_file", <<font_name, output_path>>, None,
              IF oWrite = OK THEN "none" ELSE "write", oWrite, {})
    /\ fonts' = fonts
    /\ subst' = Some(font_name)

CreateRegFile ==
  \E font_name \in FontNames, output_path \in Paths, oWrite \in Possible,
     truncated \in BOOLEAN :
    /\ oWrite = OK => ~truncated
    /\ Raises(<<oWrite>>)
    /\ files' = write_text(files, output_path, reg_content(font_name), oWrite, truncated)
    /\ Atomic("create_reg_file", <<font_name, output_path>>, None,
              IF oWrite = OK THEN "none" ELSE "write", oWrite, {})
    /\ UNCHANGED <<fonts, subst>>

\* before is a history variable: no operation reads it.
NoHistory == UNCHANGED before
History == before' = IF pc' = "idle" THEN ret ELSE before

\* The manager called directly: no window exists.
Headless == UNCHANGED ui

\* The manager with every operation a caller can invoke.
Next ==
  \/ GetCurrentFont /\ NoHistory /\ Headless
  \/ BackupCurrentSettings /\ NoHistory /\ Headless
  \/ CallChangeFont /\ NoHistory /\ Headless
  \/ CfBackup /\ NoHistory /\ Headless
  \/ CfClear /\ NoHistory /\ Headless
  \/ CfSubst /\ NoHistory /\ Headless
  \/ CallRestoreDefaultFont /\ NoHistory /\ Headless
  \/ RsFonts /\ NoHistory /\ Headless
  \/ RsSubst /\ NoHistory /\ Headless
  \/ CreateRegFile /\ NoHistory /\ Headless

Spec == Init /\ [][Next]_vars

\* The operations that read and write the registry, called one after another;
\* before remembers the call that finished before the last one.
NextSeq ==
  \/ GetCurrentFont /\ History /\ Headless
  \/ CallChangeFont /\ History /\ Headless
  \/ CfBackup /\ History /\ Headless
  \/ CfClear /\ History /\ Headless
  \/ CfSubst /\ History /\ Headless
  \/ CallRestoreDefaultFont /\ History /\ Headless
  \/ RsFonts /\ History /\ Headless
  \/ RsSubst /\ History /\ Headless

SpecSeq == Init /\ [][NextSeq]_vars

\* ------------------------------------------------------- the presentation layer

\* update_current_font_label: the text for what get_current_font returned
LabelText(current_font) ==
  IF Truthy(current_font) THEN "Current system font: " \o current_font[1]
  ELSE "Current system font: Segoe UI (Default)"

\* QMessageBox.warning / question / information / critical as the handlers call
\* them (text: the message; for a question its title), with the user's answer.
Dialog(kind, text, reply) == [kind |-> kind, text |-> text, reply |-> reply]
Replies == {"Yes", "No"}

\* FontChangeWorker(font_manager, font_name, restore): at is where its thread
\* is ("started", "running" inside the manager's call, "emitted"), calls the
\* operations of the manager it has invoked.
Worker(font_name, restore) ==
  [font_name |-> font_name, restore |-> restore, at |-> "started", calls |-> <<>>]

\* The steps of the window leave the registry, the files and the manager's
\* call alone unless they say otherwise.
UIOnly == UNCHANGED <<fonts, subst, files, pc, cur, ret, faults>>

\* update_current_font_label on the window u
UpdateCurrentFontLabel(u) ==
  /\ GetCurrentFont
  /\ ui' = [u EXCEPT !.label = LabelText(ret'.val), !.read = ret'.at]

\* FontChangerUI.__init__: the buttons are enabled as created, the label is set
\* from the registry (the read of load_fonts only selects the combo box's text,
\* which the handlers below take as their input).
Construct ==
  /\ ~ui.window
  /\ UpdateCurrentFontLabel([NoWindow EXCEPT !.window = TRUE,
                                              !.apply_enabled = TRUE,
                                              !.restore_enabled = TRUE])

\* apply_font that leaves the buttons as they are.
ApplyFont_KeepsEnabled ==
  /\ ui.window /\ ui.apply_enabled
  /\ \E font_name \in FontNames, reply \in Replies :
       ui' = IF font_name = ""
             THEN [ui EXCEPT !.dialog = Dialog("warning", "Please select a font.", "none")]
             ELSE IF reply = "Yes"
             THEN [ui EXCEPT !.dialog = Dialog("question", "Confirm Font Change", reply),
                             !.workers = Append(@, Worker(font_name, FALSE))]
             ELSE [ui EXCEPT !.dialog = Dialog("question", "Confirm Font Change", reply)]
  /\ UIOnly

\* apply_font, run by a click on the apply button (a disabled button emits no
\* click); font_name is the combo box's text.
ApplyFont ==
  /\ ui.window /\ ui.apply_enabled
  /\ \E font_name \in FontNames, reply \in Replies :
       ui' = IF font_name = ""
             THEN [ui EXCEPT !.dialog = Dialog("warning", "Please select a font.", "none")]
             ELSE IF reply = "Yes"
             THEN [ui EXCEPT !.dialog = Dialog("question", "Confirm Font Change", reply),
                             !.apply_enabled = FALSE,
                             !.restore_enabled = FALSE,
                             !.workers = Append(@, Worker(font_name, FALSE))]
             ELSE [ui EXCEPT !.dialog = Dialog("question", "Confirm Font Change", reply)]
  /\ UIOnly

\* restore_default, run by a click on the restore button
RestoreDefault ==
  /\ ui.window /\ ui.restore_enabled
  /\ \E reply \in Replies :
       ui' = IF reply = "Yes"
             THEN [ui EXCEPT !.dialog = Dialog("question", "Confirm Restore Default", reply),
                             !.apply_enabled = FALSE,
                             !.restore_enabled = FALSE,
                             !.workers = Append(@, Worker("", TRUE))]
             ELSE [ui EXCEPT !.dialog = Dialog("question", "Confirm Restore Default", reply)]
  /\ UIOnly

\* FontChangeWorker.run, up to the call of the manager it makes
WorkerRun ==
  \E i \in DOMAIN ui.workers :
    LET w == ui.workers[i]
    IN  /\ w.at = "started"
        /\ IF w.restore
           THEN /\ Call("restore_default_font", "", "rs_fonts")
                /\ ui' = [ui EXCEPT !.workers[i].at = "running",
                                    !.workers[i].calls =
                                       Append(@, <<"restore_default_font", "">>)]
           ELSE /\ Call("change_font", w.font_name, "cf_backup")
                /\ ui' = [ui EXCEPT !.workers[i].at = "running",
                                    !.workers[i].calls =
                                       Append(@, <<"change_font", w.font_name>>)]

\* FontChangeWorker.run emitting finished only for a call that succeeded.
WorkerEmit_OnSuccess ==
  /\ pc = "idle"
  /\ \E i \in DOMAIN ui.workers :
       /\ ui.workers[i].at = "running"
       /\ ui' = [ui EXCEPT !.workers[i].at = "emitted",
                           !.signals = IF ret.val[1] THEN Append(@, ret.val) ELSE @]
  /\ UIOnly

\* FontChangeWorker.run: the manager's call has returned (success, message);
\* self.finished.emit(success, message), and the thread ends.
WorkerEmit ==
  /\ pc = "idle"
  /\ \E i \in DOMAIN ui.workers :
       /\ ui.workers[i].at = "running"
       /\ ui' = [ui EXCEPT !.workers[i].at = "emitted",
                           !.signals = Append(@, ret.val)]
  /\ UIOnly

\* on_font_change_finished without its call of update_current_font_label.
OnFontChangeFinished_NeverRefreshes ==
  /\ ui.signals # <<>>
  /\ LET success == Head(ui.signals)[1]
         message == Head(ui.signals)[2]
         u == [ui EXCEPT !.apply_enabled = TRUE,
                         !.restore_enabled = TRUE,
                         !.signals = Tail(@),
                         !.workers = IF @ = <<>> THEN @ ELSE Tail(@)]
     IN  /\ ui' = [u EXCEPT !.dialog = Dialog(IF success THEN "information" ELSE "critical",
                                              message, "none")]
         /\ UIOnly

\* on_font_change_finished(success, message), run in the window's thread for
\* the oldest emitted signal: the worker it came from is no longer in flight.
OnFontChangeFinished ==
  /\ ui.signals # <<>>
  /\ LET success == Head(ui.signals)[1]
         message == Head(ui.signals)[2]
         u == [ui EXCEPT !.apply_enabled = TRUE,
                         !.restore_enabled = TRUE,
                         !.signals = Tail(@),
                         !.workers = IF @ = <<>> THEN @ ELSE Tail(@)]
     IN  IF success
         THEN UpdateCurrentFontLabel([u EXCEPT !.dialog = Dialog("information", message, "none")])
         ELSE /\ ui' = [u EXCEPT !.dialog = Dialog("critical", message, "none")]
              /\ UIOnly

\* export_reg_file, run by a click on the export button, which is never
\* disabled: file_path is what the save dialog returned ("": cancelled, and
\* the handler does nothing). The handler catches what create_reg_file raises.
ExportRegFile ==
  /\ ui.window
  /\ \E font_name \in FontNames, file_path \in {ExportPath, ""}, oWrite \in Possible,
        truncated \in BOOLEAN :
       /\ oWrite = OK => ~truncated
       /\ (font_name = "" \/ file_path = "") => oWrite = OK
       /\ Raises(<<oWrite>>)
       /\ IF font_name = ""
          THEN /\ ui' = [ui EXCEPT !.dialog = Dialog("warning", "Please select a font.", "none")]
               /\ UNCHANGED files
          ELSE IF file_path = ""
          THEN UNCHANGED <<ui, files>>
          ELSE /\ files' = write_text(files, file_path, reg_content(font_name),
                                      oWrite, truncated)
               /\ ui' = [ui EXCEPT !.dialog =
                           IF oWrite = OK
                           THEN Dialog("information",
                                       "Registry file saved to:\n" \o file_path, "none")
                           ELSE Dialog("critical",
                                       "Failed to create registry file: " \o oWrite.desc,
                                       "none")]
  /\ UNCHANGED <<fonts, subst, pc, cur, ret>>

\* The steps of a worker's thread.
WorkerNext ==
  \/ WorkerRun /\ NoHistory
  \/ CfBackup /\ NoHistory /\ Headless
  \/ CfClear /\ NoHistory /\ Headless
  \/ CfSubst /\ NoHistory /\ Headless
  \/ RsFonts /\ NoHistory /\ Headless
  \/ RsSubst /\ NoHistory /\ Headless
  \/ WorkerEmit /\ NoHistory

\* The steps of the window's thread.
WindowNext ==
  \/ Construct /\ NoHistory
  \/ ApplyFont /\ NoHistory
  \/ RestoreDefault /\ NoHistory
  \/ OnFontChangeFinished /\ NoHistory
  \/ ExportRegFile /\ NoHistory

\* The application: the window and the workers it starts.
NextUI ==
  \/ WorkerNext
  \/ WindowNext

SpecUI == Init /\ [][NextUI]_vars

\* The application with its threads scheduled: a worker's thread that can take
\* a step takes it, and the event loop delivers an emitted signal.
SpecUIFair ==
  /\ Init
  /\ [][NextUI]_vars
  /\ WF_vars(WorkerNext)
  /\ WF_vars(OnFontChangeFinished /\ NoHistory)

\* ------------------------------------------------------------------ the claims

\* What a state shows of the last finished call.
Finished(op) == pc = "idle" /\ ret.op = op
Succeeded(r) == r.val # None /\ r.val[1] = TRUE
TableRestored == \A i \in EntryIdx : fonts[EntryName[i]] = EntryFile[i]
SegoeUICleared == \A i \in EntryIdx : NameHasSegoeUI[i] => fonts[EntryName[i]] = ""

\* C1 as stated: for every font name f and every starting registry state,
\* change_font(f) followed by get_current_font() yields f.
C1_AsStated ==
  (Finished("get_current_font") /\ before.op = "change_font")
    => ret.val = Some(before.arg)

\* C1, amended: a change_font(f) that returns success, followed by a
\* get_current_font() whose registry read does not fail, yields f.
C1_ChangeThenGet ==
  (Finished("get_current_font") /\ before.op = "change_font"
     /\ Succeeded(before) /\ ret.exc = OK)
    => ret.val = Some(before.arg)

C1_Witness ==
  /\ Finished("get_current_font") /\ before.op = "change_font"
  /\ Succeeded(before) /\ ret.exc = OK
  /\ before.arg = "" /\ ret.val = Some("")

\* C2: in every execution of change_font the backup file is written before the
\* first registry write (the steps that write the registry run only after the
\* backup was written, and the backup step itself writes no registry value);
\* when backup_current_settings fails, no value of the Fonts key and no
\* "Segoe UI" substitution is modified and change_font returns a failure.
C2_BackupFirst ==
  /\ [](pc \in {"cf_clear", "cf_subst"}
          => cur.backedUp /\ files[BackupPath] # None
             /\ files[BackupPath][1].lines # <<>>)
  /\ [][pc = "cf_backup"
          => /\ fonts' = cur.preFonts /\ subst' = cur.preSubst
             /\ pc' = "idle"
                  => /\ ret'.op = "change_font" /\ ret'.at = "backup"
                     /\ ret'.exc # OK /\ ret'.val[1] = FALSE]_vars

C2_Witness ==
  /\ Finished("change_font") /\ ret.at = "backup" /\ ret.val[1] = FALSE
  /\ files[BackupPath] = None

\* C3 as stated: from any registry state, a restore_default_font call whose two
\* key opens succeed returns success, leaves the substitution value absent and
\* every entry of the table equal to its static file name.
C3_AsStated ==
  (Finished("restore_default_font") /\ ret.at \notin {"open_fonts", "open_subst"})
    => Succeeded(ret) /\ subst = None /\ TableRestored

\* C3, amended: from any registry state, a restore_default_font call in which
\* no registry call raises (the two key opens, every SetValueEx and the
\* DeleteValue; value-not-found on the delete is no failure) returns success,
\* leaves the substitution value absent and every entry of the table equal to
\* its static file name; called a second time it returns success again and
\* leaves the registry as the first call left it.
C3_RestoreIdempotent ==
  /\ []((Finished("restore_default_font") /\ ret.exc = OK)
          => Succeeded(ret) /\ ret.val[2] = RestoreOkMsg
             /\ subst = None /\ TableRestored)
  /\ [][(pc = "rs_subst" /\ pc' = "idle" /\ ret'.exc = OK
           /\ ret.op = "restore_default_font" /\ Succeeded(ret))
          => Succeeded(ret') /\ fonts' = cur.preFonts /\ subst' = cur.preSubst]_vars

C3_Witness ==
  /\ Finished("restore_default_font") /\ Succeeded(ret)
  /\ before.op = "restore_default_font" /\ Succeeded(before)
  /\ subst = None /\ TableRestored

StepOf(op) == pc = "idle" /\ pc' = "idle" /\ ret'.op = op

\* C5: get_current_font returns the stored "Segoe UI" value when it is present
\* and readable; it returns None, without raising, when the value is absent and
\* when the key open or the read fails; it never modifies the registry.
C5_GetCurrentFont ==
  [][StepOf("get_current_font")
       => /\ ret'.exc = OK => ret'.val = subst
          /\ ret'.exc # OK => ret'.val = None
          /\ ret'.at \in {"value", "not_found", "open_failed", "query_failed"}
          /\ ret'.at = "value" <=> (ret'.exc = OK /\ subst # None)
          /\ ret'.at = "not_found" <=> (ret'.exc = OK /\ subst = None)
          /\ fonts' = fonts /\ subst' = subst]_vars

C5_Witness ==
  /\ Finished("get_current_font") /\ ret.at = "query_failed"
  /\ ret.val = None /\ subst = Some("Arial")

\* C6 as stated: the result of get_current_font under a total registry-open
\* failure is distinguishable from its result when the key opens and the
\* "Segoe UI" value is not found.
C6_AsStated ==
  (Finished("get_current_font") /\ before.op = "get_current_font"
     /\ ret.at = "open_failed" /\ before.at = "not_found")
    => ret.val # before.val

\* C6, amended: the result of get_current_font under a total registry-open
\* failure is the same as its result when the key opens and the "Segoe UI"
\* value is not found: None in both cases.
C6_SameResult ==
  /\ (Finished("get_current_font") /\ ret.at \in {"open_failed", "not_found"})
       => ret.val = None
  /\ (Finished("get_current_font") /\ before.op = "get_current_font"
        /\ ret.at = "open_failed" /\ before.at = "not_found")
       => ret.val = before.val

C6_Witness ==
  /\ Finished("get_current_font") /\ before.op = "get_current_font"
  /\ ret.at = "open_failed" /\ before.at = "not_found"

\* The lines of the backup file.
BackupLines == files[BackupPath][1].lines
Written(op) == Finished(op) /\ ret.exc = OK
Range(seq) == {seq[i] : i \in DOMAIN seq}

\* C7 (here for a registry that get_current_font reads without failure): the
\* document backup_current_settings writes starts with the header; whenever a
\* "Segoe UI" value f exists, for every string f, the empty one included, its
\* substitution section is the line "Segoe UI"="f", and only when no value
\* exists is it the delete directive.
C7_AsStated ==
  (Written("backup_current_settings") /\ "get_current_font" \notin ret.swallowed)
    => /\ BackupLines[1] = "Windows Registry Editor Version 5.00"
       /\ subst # None
            => BackupLines[Len(BackupLines)] = "\"Segoe UI\"=\"" \o subst[1] \o "\""
       /\ BackupLines[Len(BackupLines)] = "\"Segoe UI\"=-" => subst = None

C9_NoRollback ==
  [][(pc = "cf_subst" /\ pc' = "idle" /\ ret'.exc # OK)
       => /\ ret'.op = "change_font" /\ ret'.val[1] = FALSE
          /\ ret'.at \in {"open_subst", "set_subst"}
          /\ subst' = cur.preSubst
          /\ \A i \in EntryIdx :
               fonts'[EntryName[i]] = IF NameHasSegoeUI[i] THEN ""
                                      ELSE cur.preFonts[EntryName[i]]]_vars

C9_Witness ==
  /\ Finished("change_font") /\ ret.at = "set_subst" /\ ret.val[1] = FALSE
  /\ SegoeUICleared /\ subst = None /\ ret.arg = "Arial"

\* C10 as stated: there is a single backup file at the fixed path; every
\* change_font call overwrites it, and restore_default_font, get_current_font
\* and create_reg_file leave it unchanged.
C10_AsStated ==
  [][/\ pc = "cf_backup"
          => /\ files'[ExportPath] = files[ExportPath]
             /\ files'[BackupPath] # None
             /\ files'[BackupPath][1].lines # <<>>
             /\ files'[BackupPath][1].lines[1] = Header
     /\ pc \in {"cf_clear", "cf_subst", "rs_fonts", "rs_subst"} => files' = files
     /\ pc' \in {"cf_backup", "rs_fonts"} => files' = files
     /\ StepOf("get_current_font") => files' = files
     /\ StepOf("create_reg_file") => files'[BackupPath] = files[BackupPath]]_vars

\* C10, amended: there is a single backup file at the fixed path; every
\* change_font call overwrites it, unless the write itself raises, which ends
\* the call with a failure; restore_default_font, get_current_font and a
\* create_reg_file whose output path is not the backup file's path leave it
\* unchanged.
C10_BackupFile ==
  [][/\ pc = "cf_backup"
          => /\ files'[ExportPath] = files[ExportPath]
             /\ \/ pc' = "idle" /\ ret'.at = "backup" /\ ret'.exc # OK
                \/ /\ files'[BackupPath] # None
                   /\ files'[BackupPath][1].lines # <<>>
                   /\ files'[BackupPath][1].lines[1] = Header
     /\ pc \in {"cf_clear", "cf_subst", "rs_fonts", "rs_subst"} => files' = files
     /\ pc' \in {"cf_backup", "rs_fonts"} => files' = files
     /\ StepOf("get_current_font") => files' = files
     /\ (StepOf("create_reg_file") /\ ret'.arg[2] # BackupPath)
          => files'[BackupPath] = files[BackupPath]]_vars

C10_Witness ==
  /\ Finished("create_reg_file") /\ ret.exc = OK /\ ret.arg[2] = ExportPath
  /\ files[ExportPath] # None
  /\ files[BackupPath] # None /\ files[BackupPath] # files[ExportPath]
  /\ files[BackupPath][1].lines # <<>>

\* C11 as stated: create_reg_file(f, path) leaves the registry and the backup
\* file unchanged; it writes to the given path a UTF-16LE document that holds
\* the header and the line "Segoe UI"="f"; a failure of the write reaches the
\* caller.
C11_AsStated ==
  [][StepOf("create_reg_file")
       => /\ fonts' = fonts /\ subst' = subst
          /\ files'[BackupPath] = files[BackupPath]]_vars

\* C11, amended: create_reg_file(f, path) leaves the registry unchanged and
\* every file other than the one at the given path (the backup file too, unless
\* the caller gave its path). When the write returns, the file at the given
\* path is a UTF-16LE document that holds the header, the lines clearing the
\* entries and, last, the line "Segoe UI"="f". When the write raises, the
\* exception reaches the caller (nothing is returned, nothing is passed over)
\* and the file is as it was or is left empty.
C11_CreateRegFile ==
  [][StepOf("create_reg_file")
       => LET f == ret'.arg[1]
              path == ret'.arg[2]
          IN  /\ fonts' = fonts /\ subst' = subst
              /\ \A p \in Paths \ {path} : files'[p] = files[p]
              /\ ret'.val = None /\ ret'.swallowed = {}
              /\ ret'.exc = OK
                   => /\ files'[path] # None
                      /\ files'[path][1].encoding = "utf-16-le"
                      /\ files'[path][1].lines[1] = "Windows Registry Editor Version 5.00"
                      /\ files'[path][1].lines[Len(files'[path][1].lines)]
                           = "\"Segoe UI\"=\"" \o f \o "\""
                      /\ Len(files'[path][1].lines) = 21
              /\ ret'.exc # OK
                   => /\ ret'.at = "write" /\ ret'.exc \in Failures
                      /\ files'[path] \in {files[path], Some(File(<<>>))}]_vars

C11_Witness ==
  /\ Finished("create_reg_file") /\ ret.at = "write" /\ ret.exc = PermissionErr
  /\ ret.arg = <<"Arial", ExportPath>>
  /\ files[ExportPath] = Some(File(<<>>))

\* The background operations in flight: the workers started whose completion
\* notification has not been handled.
InFlight == Len(ui.workers)
ControlsEnabled == ui.apply_enabled /\ ui.restore_enabled
ControlsDisabled == ~ui.apply_enabled /\ ~ui.restore_enabled

\* C12: at most one background operation is in flight; a worker is started
\* only after the user confirmed and, for apply, with a non-empty font
\* selection; the apply and restore controls are disabled from the moment a
\* worker is started until its completion notification is handled, and they
\* stay enabled when the user cancels.
C12_OneInFlight ==
  /\ [](InFlight <= 1)
  /\ [](ui.window => IF InFlight > 0 THEN ControlsDisabled ELSE ControlsEnabled)
  /\ [][Len(ui'.workers) > Len(ui.workers)
          => /\ ui.workers = <<>> /\ Len(ui'.workers) = 1
             /\ ui'.dialog.kind = "question" /\ ui'.dialog.reply = "Yes"
             /\ ui'.workers[1].at = "started"
             /\ ~ui'.workers[1].restore => ui'.workers[1].font_name # ""
             /\ ControlsEnabled /\ ~ui'.apply_enabled /\ ~ui'.restore_enabled]_vars
  /\ [][(ui'.dialog.reply = "No" /\ ui'.dialog # ui.dialog)
          => /\ ui'.workers = <<>> /\ ui.workers = <<>>
             /\ ui'.apply_enabled /\ ui'.restore_enabled
             /\ UNCHANGED <<fonts, subst, files, pc>>]_vars

C12_Witness ==
  /\ InFlight = 1 /\ ui.workers[1].at = "running" /\ pc = "cf_clear"
  /\ ControlsDisabled /\ ui.dialog.reply = "Yes"

\* C13: every started background operation runs to completion and emits one
\* completion notification (success, message), whatever call of the registry
\* fails, after which the apply and restore controls are enabled again; the
\* worker invokes restore_default_font when its restore flag is set and
\* change_font(font_name) otherwise, never both.
C13_RunsToCompletion ==
  /\ (InFlight > 0) ~> (InFlight = 0 /\ ControlsEnabled)
  /\ [](/\ Len(ui.signals) <= 1
        /\ Len(ui.signals) = Cardinality({i \in DOMAIN ui.workers :
                                            ui.workers[i].at = "emitted"})
        /\ \A i \in DOMAIN ui.workers :
             LET w == ui.workers[i]
             IN  /\ w.at = "started" => w.calls = <<>>
                 /\ (w.at # "started" /\ w.restore)
                      => w.calls = << <<"restore_default_font", "">> >>
                 /\ (w.at # "started" /\ ~w.restore)
                      => w.calls = << <<"change_font", w.font_name>> >>
                 /\ (w.at = "running" /\ pc # "idle")
                      => cur.op = w.calls[1][1] /\ cur.arg = w.calls[1][2])
  /\ [][Len(ui'.workers) < Len(ui.workers)
          => /\ ui.workers[1].at = "emitted" /\ ui'.workers = <<>>
             /\ Head(ui.signals)[1] \in BOOLEAN
             /\ ui'.signals = <<>>
             /\ ui'.dialog.text = Head(ui.signals)[2]
             /\ ui'.dialog.kind = (IF Head(ui.signals)[1] THEN "information" ELSE "critical")
             /\ ui'.apply_enabled /\ ui'.restore_enabled]_vars

C13_Witness ==
  /\ ui.window /\ InFlight = 0 /\ ControlsEnabled
  /\ ui.dialog.kind = "critical"
  /\ ui.dialog.text = "Error restoring default font: Registry error"
  /\ ret.op = "restore_default_font" /\ ret.at = "delete_subst"

\* C17 as stated: whenever no background operation is in flight, the label
\* agrees with the registry's "Segoe UI" substitution value: the override name
\* when one is set, the default text when it is absent.
C17_AsStated ==
  (ui.window /\ InFlight = 0)
    => ui.label = IF subst # None THEN "Current system font: " \o subst[1]
                  ELSE "Current system font: Segoe UI (Default)"

\* C17, amended: whenever no background operation is in flight and the
\* registry read that last set the label did not fail, the label agrees with
\* the registry's "Segoe UI" substitution value, after any sequence of apply
\* and restore operations, whether they succeed or fail: it names the override
\* when the value is a non-empty string and shows the default text when the
\* value is absent or empty. (A failed read sets the default text.)
C17_LabelAgrees ==
  /\ (ui.window /\ InFlight = 0 /\ ui.read \in {"value", "not_found"})
       => ui.label = IF subst # None /\ subst[1] # ""
                     THEN "Current system font: " \o subst[1]
                     ELSE "Current system font: Segoe UI (Default)"
  /\ (ui.window /\ ui.read \in {"open_failed", "query_failed"})
       => ui.label = "Current system font: Segoe UI (Default)"

C17_Witness ==
  /\ ui.window /\ InFlight = 0 /\ ui.read = "value"
  /\ ui.dialog.kind = "critical" /\ ret.op = "change_font" /\ ret.at = "set_subst"
  /\ SegoeUICleared /\ subst = Some("Arial")
  /\ ui.label = "Current system font: Arial"

\* C14: a successful change_font sets to the empty string exactly the entries
\* of the table whose display name contains "Segoe UI", and leaves every other
\* value of the Fonts key as the call found it: the entries of the table whose
\* name does not contain "Segoe UI" and the values that are no entry of it.
C14_ClearsSegoeUI ==
  [][(pc = "cf_subst" /\ pc' = "idle" /\ ret'.exc = OK)
       => /\ ret'.op = "change_font" /\ ret'.val[1] = TRUE
          /\ \A n \in DOMAIN fonts' :
               fonts'[n] =
                 IF n \in {"Segoe MDL2 Assets (TrueType)", "Segoe Print (TrueType)",
                           "Segoe Print Bold (TrueType)", "Segoe Script (TrueType)",
                           "Segoe Script Bold (TrueType)", "Arial (TrueType)"}
                 THEN cur.preFonts[n]
                 ELSE ""
          /\ Cardinality({n \in DOMAIN fonts' : fonts'[n] = ""}) = 15]_vars

C14_Witness ==
  /\ Finished("change_font") /\ Succeeded(ret)
  /\ fonts["Segoe UI Bold (TrueType)"] = ""
  /\ fonts["Segoe Print (TrueType)"] = "custom.ttf"
  /\ fonts["Segoe Script (TrueType)"] = "segoesc.ttf"
  /\ fonts["Arial (TrueType)"] = "arial.ttf"

\* C15: for every font name f, applying the document create_reg_file(f, path)
\* writes to a registry state yields the Fonts-key and FontSubstitutes-key
\* values a successful change_font(f) yields on that state: the same entries
\* are set to the empty string, and "Segoe UI" is set to f.
C15_ExportAsChange ==
  /\ [][(StepOf("create_reg_file") /\ ret'.exc = OK)
          => LET applied == ApplyRegFile(files'[ret'.arg[2]][1], fonts, subst)
             IN  /\ files'[ret'.arg[2]][1].lines = reg_content(ret'.arg[1])
                 /\ applied.subst = Some(ret'.arg[1])
                 /\ applied.fonts = ClearBefore(fonts, NumEntries + 1)]_vars
  /\ [][(pc = "cf_subst" /\ pc' = "idle" /\ ret'.exc = OK)
          => Import(reg_content(cur.arg), "none", cur.preFonts, cur.preSubst)
               = [fonts |-> fonts', subst |-> subst']]_vars

C15_Witness ==
  /\ Finished("create_reg_file") /\ ret.exc = OK /\ ret.arg = <<"Arial", ExportPath>>
  /\ fonts = ForeignFonts /\ subst = None
  /\ ApplyRegFile(files[ExportPath][1], fonts, subst).subst = Some("Arial")
  /\ ApplyRegFile(files[ExportPath][1], fonts, subst).fonts["Segoe UI Bold (TrueType)"] = ""
  /\ ApplyRegFile(files[ExportPath][1], fonts, subst).fonts["Segoe Print (TrueType)"]
       = "custom.ttf"

\* C16 (here for behaviours in which no call has raised): applying the backup
\* document a change_font has written restores the "Segoe UI" substitution
\* value to the value, or absence, it had immediately before that change_font
\* call, and sets every entry of the table back to its static file name.
C16_AsStated ==
  [][(pc = "cf_subst" /\ pc' = "idle" /\ ret'.exc = OK /\ faults' = 0)
       => LET applied == ApplyRegFile(files'[BackupPath][1], fonts', subst')
          IN  /\ applied.subst = cur.preSubst
              /\ \A i \in EntryIdx : applied.fonts[EntryName[i]] = EntryFile[i]]_vars

====
